---- MODULE Spec2Model ----
(***************************************************************************)
(* Verification model of premier-league-spending-success:                  *)
(*   data/scripts/get_fbref_wages.py  (wage scraper)                       *)
(*   01_data_preparation.py           (sheet stacking)                     *)
(*   02_analysis.py                   (type coercion)                      *)
(*   03_regression.py                 (row selection for the OLS models)   *)
(* Text is modelled as sequences of one-character strings, so that the     *)
(* regular expressions, strip(), lower() and replace() of the scripts are  *)
(* computed character by character.                                        *)
(***************************************************************************)
EXTENDS Integers, Sequences, FiniteSets, TLC

VARIABLES
    \* ---- get_fbref_wages.py: main() ----
    start_season,   \* args.start
    end_season,     \* args.end
    pc,             \* position of main(): "start", "loop", "done", "crashed"
    seasons,        \* list returned by make_season_list
    idx,            \* 1-based position of the for loop in seasons
    results,        \* results list
    failures,       \* failures list
    attempts,       \* history: calls of fetch_fbref_wages_for_season, in order
    events,         \* history: "req" (requests.get issued) and "sleep" (time.sleep)
    run_log,        \* run_log.csv
    failures_csv,   \* failures.csv
    err,            \* uncaught exception that ended main(), or "none"
    \* ---- get_fbref_wages.py: parse_money_to_gbp ----
    money_value,    \* the argument
    money_result,   \* what the call returned, once it has returned
    \* ---- 01_data_preparation.py: normalise_season_value ----
    season_label,   \* the argument (a sheet name)
    season_once,    \* normalise_season_value(season_label), once returned
    season_twice,   \* normalise_season_value of that result, once returned
    \* ---- 01_data_preparation.py: column standardisation of one sheet ----
    col_pc,         \* the next statement of the loop body, "done" after the last
    columns,        \* df.columns
    columns_was,    \* history: df.columns before the statement just executed
    \* ---- 01_data_preparation.py: the whole script ----
    workbook,       \* the sheets of PL-financials.xlsx: name, header, rows
    sheet_no,       \* 1-based position of the sheet loop
    dfs,            \* dfs
    stack_pc,       \* "loop", "concat", "dupes", "save", "done", "crashed"
    stacked,        \* stacked
    dupes,          \* dupes, as the index labels of its rows, in its row order
    stacked_csv,    \* pl_financials_stacked.csv
    stack_err,      \* uncaught exception that ended the script, or "none"
    \* ---- 02_analysis.py and 03_regression.py ----
    reg_pc,         \* "analysis" (02 to run), "regression", "dropna", "fit", "done"
    stacked_rows,   \* the rows 02 reads from pl_financials_stacked.csv
    ready_csv,      \* pl_financials_analysis_ready.csv
    table,          \* df of the script that is running
    used            \* for each fitted model, the ids of the rows it was fitted on

scraperVars == <<start_season, end_season, pc, seasons, idx, results, failures,
                 attempts, events, run_log, failures_csv, err>>

moneyVars == <<money_value, money_result>>

seasonVars == <<season_label, season_once, season_twice>>

columnVars == <<col_pc, columns, columns_was>>

stackVars == <<workbook, sheet_no, dfs, stack_pc, stacked, dupes, stacked_csv, stack_err>>

regVars == <<reg_pc, stacked_rows, ready_csv, table, used>>

vars == <<scraperVars, moneyVars, seasonVars, columnVars, stackVars, regVars>>

(***************************************************************************)
(* Each script is checked under a specification of its own; the variables  *)
(* of the other scripts then rest at these values.                         *)
(***************************************************************************)
NoFile == [written |-> FALSE, rows |-> <<>>]

ScraperIdle ==
    /\ start_season = <<>>
    /\ end_season = <<>>
    /\ pc = "idle"
    /\ seasons = <<>>
    /\ idx = 0
    /\ results = <<>>
    /\ failures = <<>>
    /\ attempts = <<>>
    /\ events = <<>>
    /\ run_log = NoFile
    /\ failures_csv = NoFile
    /\ err = "none"

Pending == [state |-> "pending", num |-> 0, den |-> 1]

MoneyIdle ==
    /\ money_value = [na |-> TRUE, text |-> <<>>]
    /\ money_result = Pending

NotReturned == [done |-> FALSE, text |-> <<>>]

Returned(s) == [done |-> TRUE, text |-> s]

SeasonIdle ==
    /\ season_label = <<>>
    /\ season_once = NotReturned
    /\ season_twice = NotReturned

ColumnsIdle ==
    /\ col_pc = "idle"
    /\ columns = <<>>
    /\ columns_was = <<>>

NoFrame == [columns |-> <<>>, rows |-> <<>>]

StackIdle ==
    /\ workbook = <<>>
    /\ sheet_no = 0
    /\ dfs = <<>>
    /\ stack_pc = "idle"
    /\ stacked = NoFrame
    /\ dupes = <<>>
    /\ stacked_csv = NoFile
    /\ stack_err = "none"

Models == {"M1", "M2", "M3", "M4"}

NotFitted == [m \in Models |-> {}]

RegIdle ==
    /\ reg_pc = "idle"
    /\ stacked_rows = <<>>
    /\ ready_csv = NoFile
    /\ table = <<>>
    /\ used = NotFitted

notScraper == <<moneyVars, seasonVars, columnVars, stackVars, regVars>>
notMoney == <<scraperVars, seasonVars, columnVars, stackVars, regVars>>
notSeason == <<scraperVars, moneyVars, columnVars, stackVars, regVars>>
notColumns == <<scraperVars, moneyVars, seasonVars, stackVars, regVars>>
notStack == <<scraperVars, moneyVars, seasonVars, columnVars, regVars>>
notReg == <<scraperVars, moneyVars, seasonVars, columnVars, stackVars>>

(***************************************************************************)
(* Text helpers                                                            *)
(***************************************************************************)
\* The two characters of the scripts outside ASCII, as atoms of the model.
Pound == "U+00A3"
EnDash == "U+2013"

DigitChars == <<"0", "1", "2", "3", "4", "5", "6", "7", "8", "9">>

IsDigit(c) == \E d \in 1..10 : DigitChars[d] = c

DigitVal(c) == (CHOOSE d \in 1..10 : DigitChars[d] = c) - 1

\* Python's str.strip() and the regex class \s, on the characters of the model.
Whitespace == {" ", "\t", "\n"}

RECURSIVE lstrip(_)
lstrip(s) ==
    IF s # <<>> /\ Head(s) \in Whitespace THEN lstrip(Tail(s)) ELSE s

RECURSIVE rstrip(_)
rstrip(s) ==
    IF s # <<>> /\ s[Len(s)] \in Whitespace
    THEN rstrip(SubSeq(s, 1, Len(s) - 1))
    ELSE s

strip(s) == rstrip(lstrip(s))

\* str.replace(old, new) for a one-character old and a text new.
RECURSIVE replace(_, _, _)
replace(s, old, new) ==
    IF s = <<>> THEN <<>>
    ELSE (IF Head(s) = old THEN new ELSE <<Head(s)>>) \o replace(Tail(s), old, new)

\* int(text) of a run of decimal digits.
RECURSIVE int(_)
int(s) ==
    IF s = <<>> THEN 0
    ELSE 10 * int(SubSeq(s, 1, Len(s) - 1)) + DigitVal(s[Len(s)])

\* f"{n}" of a natural number: as many digits as it needs, no padding.
RECURSIVE format_int(_)
format_int(n) ==
    IF n < 10 THEN <<DigitChars[n + 1]>>
    ELSE format_int(n \div 10) \o <<DigitChars[(n % 10) + 1]>>

AllDigits(s) == \A k \in 1..Len(s) : IsDigit(s[k])

(***************************************************************************)
(* get_fbref_wages.py                                                      *)
(***************************************************************************)

\* re.match(r"^(\d{4})-(\d{4})$", s): Python's "$" matches at the end of the
\* text and also just before a newline that ends the text.
SeasonReMatches(s) ==
    /\ \/ Len(s) = 9
       \/ Len(s) = 10 /\ s[10] = "\n"
    /\ AllDigits(SubSeq(s, 1, 4))
    /\ s[5] = "-"
    /\ AllDigits(SubSeq(s, 6, 9))

SeasonReGroup1(s) == SubSeq(s, 1, 4)
SeasonReGroup2(s) == SubSeq(s, 6, 9)

\* season_slug: [ok |-> FALSE] stands for the ValueError it raises.
season_slug(season) ==
    LET t == strip(season) IN
    IF ~SeasonReMatches(t)
    THEN [ok |-> FALSE, slug |-> <<>>]
    ELSE [ok |-> TRUE, slug |-> SeasonReGroup1(t) \o <<"-">> \o SeasonReGroup2(t)]

\* for y in range(start_year, end_year + 1): seasons.append(f"{y}-{y+1}")
RECURSIVE SeasonRange(_, _)
SeasonRange(y, end_year) ==
    IF y > end_year THEN <<>>
    ELSE <<format_int(y) \o <<"-">> \o format_int(y + 1)>> \o SeasonRange(y + 1, end_year)

\* make_season_list: error is "none", "format" (first ValueError) or "range"
\* (second ValueError).
make_season_list(start, end) ==
    IF ~SeasonReMatches(start) \/ ~SeasonReMatches(end)
    THEN [error |-> "format", seasons |-> <<>>]
    ELSE LET start_year == int(SeasonReGroup1(start))
             end_year == int(SeasonReGroup1(end))
         IN IF end_year < start_year
            THEN [error |-> "range", seasons |-> <<>>]
            ELSE [error |-> "none", seasons |-> SeasonRange(start_year, end_year)]

\* os.path.join(args.outdir, f"wages_{s.replace('-', '_')}.csv"), without the directory.
outfile(s) ==
    <<"w", "a", "g", "e", "s", "_">> \o replace(s, "-", <<"_">>) \o <<".", "c", "s", "v">>

\* What the network and the page can do to one call of fetch_fbref_wages_for_season:
\*   "ok"         the page is fetched and holds a wages table
\*   "http_error" requests.get or raise_for_status raises
\*   "no_table"   pd.read_html or find_wages_table raises
NetOutcomes == {"ok", "http_error", "no_table"}

\* Largest len(df) a fetched table is given in the model.
MaxWageRows == 1

\* fetch_fbref_wages_for_season(season): the exception it raises ("none" when it
\* returns), the requests and sleeps it performs, and len() of the frame returned.
fetch_fbref_wages_for_season(season, net, nrows) ==
    IF ~season_slug(season).ok
    THEN [raised |-> "ValueError", events |-> <<>>, rows |-> 0]
    ELSE IF net = "http_error"
    THEN [raised |-> "HTTPError", events |-> <<"req">>, rows |-> 0]
    ELSE IF net = "no_table"
    THEN [raised |-> "RuntimeError", events |-> <<"req">>, rows |-> 0]
    ELSE [raised |-> "none", events |-> <<"req", "sleep">>, rows |-> nrows]

\* Faulty variant of HandleException: the except clause swallows the error without recording it.
HandleExceptionNotRecorded(fs, s, e) == fs

\* except Exception as e: failures.append((s, str(e)))
HandleException(fs, s, e) == Append(fs, [season |-> s, error |-> e])

\* results.append((s, len(df), outfile))
RecordResult(rs, s, n) == Append(rs, [season |-> s, rows |-> n, file |-> outfile(s)])

\* Longest season list of a modelled run.
MaxSeasons == 3

Season(y1, y2) == format_int(y1) \o <<"-">> \o format_int(y2)

\* The values given to --start and --end.
BoundTexts ==
    { Season(2013, 2014), Season(2014, 2015), Season(2015, 2016),
      Season(2015, 1999), Season(9998, 9999), Season(9999, 9999),
      Season(13, 14), Season(2013, 14),
      Season(2013, 2014) \o <<"\n">>, Season(2013, 2014) \o <<" ">> }

InitScraper ==
    /\ start_season \in BoundTexts
    /\ end_season \in BoundTexts
    /\ (SeasonReMatches(start_season) /\ SeasonReMatches(end_season))
          => int(SeasonReGroup1(end_season)) - int(SeasonReGroup1(start_season)) < MaxSeasons
    /\ pc = "start"
    /\ seasons = <<>>
    /\ idx = 1
    /\ results = <<>>
    /\ failures = <<>>
    /\ attempts = <<>>
    /\ events = <<>>
    /\ run_log = NoFile
    /\ failures_csv = NoFile
    /\ err = "none"
    /\ MoneyIdle
    /\ SeasonIdle
    /\ ColumnsIdle
    /\ StackIdle
    /\ RegIdle

\* seasons = make_season_list(args.start, args.end); a ValueError ends main().
MakeSeasonList ==
    /\ pc = "start"
    /\ LET r == make_season_list(start_season, end_season) IN
       /\ err' = r.error
       /\ seasons' = r.seasons
       /\ pc' = IF r.error = "none" THEN "loop" ELSE "crashed"
    /\ UNCHANGED <<start_season, end_season, idx, results, failures, attempts,
                   events, run_log, failures_csv>>
    /\ UNCHANGED notScraper

\* One iteration of "for s in seasons": the try block and its except clause.
LoopIteration ==
    /\ pc = "loop"
    /\ idx <= Len(seasons)
    /\ \E net \in NetOutcomes, nrows \in 0..MaxWageRows :
         LET s == seasons[idx]
             r == fetch_fbref_wages_for_season(s, net, nrows)
         IN /\ attempts' = Append(attempts, [season |-> s, raised |-> r.raised])
            /\ events' = events \o r.events
            /\ results' = IF r.raised = "none" THEN RecordResult(results, s, r.rows)
                          ELSE results
            /\ failures' = IF r.raised = "none" THEN failures
                           ELSE HandleException(failures, s, r.raised)
    /\ idx' = idx + 1
    /\ UNCHANGED <<start_season, end_season, pc, seasons, run_log, failures_csv, err>>
    /\ UNCHANGED notScraper

\* After the loop: run_log.csv and failures.csv are written.
WriteLogs ==
    /\ pc = "loop"
    /\ idx > Len(seasons)
    /\ run_log' = [written |-> TRUE, rows |-> results]
    /\ failures_csv' = [written |-> TRUE, rows |-> failures]
    /\ pc' = "done"
    /\ UNCHANGED <<start_season, end_season, seasons, idx, results, failures,
                   attempts, events, err>>
    /\ UNCHANGED notScraper

NextScraper == MakeSeasonList \/ LoopIteration \/ WriteLogs

SpecScraper == InitScraper /\ [][NextScraper]_vars

(***************************************************************************)
(* Claims about the scraper (checked under SpecScraper)                    *)
(***************************************************************************)
CountSeason(list, s) == Cardinality({k \in 1..Len(list) : list[k].season = s})

\* C1: in a run whose bounds are valid, each season of the list gets exactly one
\* fetch attempt, in list order; once attempted it has exactly one entry, in
\* results if the fetch returned and in failures if it raised; at the end
\* len(results) + len(failures) = len(seasons) and both log files are written.
C1_OneAttemptOneEntryPerSeason ==
    (pc \in {"loop", "done"}) =>
        /\ Len(attempts) = idx - 1
        /\ Len(attempts) <= Len(seasons)
        /\ \A k \in 1..Len(attempts) :
              /\ attempts[k].season = seasons[k]
              /\ CountSeason(attempts, seasons[k]) = 1
              /\ CountSeason(results, seasons[k]) + CountSeason(failures, seasons[k]) = 1
              /\ (attempts[k].raised = "none") <=> (CountSeason(results, seasons[k]) = 1)
        /\ \A k \in (Len(attempts) + 1)..Len(seasons) :
              CountSeason(results, seasons[k]) + CountSeason(failures, seasons[k]) = 0
        /\ (pc = "done") =>
              /\ Len(attempts) = Len(seasons)
              /\ Len(results) + Len(failures) = Len(seasons)
              /\ run_log = [written |-> TRUE, rows |-> results]
              /\ failures_csv = [written |-> TRUE, rows |-> failures]

\* C1 witness: a finished run of three seasons in which the first fetch raised and a
\* later one succeeded.
C1_Witness ==
    /\ pc = "done"
    /\ Len(seasons) = 3
    /\ attempts[1].raised # "none"
    /\ attempts[3].raised = "none"
    /\ Len(failures) >= 1
    /\ Len(results) >= 1

\* C2: between any two HTTP requests of a run the inter-request sleep is
\* performed, whatever the outcome of the earlier request.
C2_SleepBetweenRequests ==
    \A i, j \in 1..Len(events) :
        (i < j /\ events[i] = "req" /\ events[j] = "req")
            => \E k \in (i + 1)..(j - 1) : events[k] = "sleep"

\* "four digits, hyphen, four digits", read literally.
IsYearHyphenYear(s) ==
    /\ Len(s) = 9
    /\ \A k \in {1, 2, 3, 4, 6, 7, 8, 9} : IsDigit(s[k])
    /\ s[5] = "-"

\* C3: make_season_list fails with a format error when a bound is not four
\* digits, hyphen, four digits; else with a range error when the end's first year
\* is smaller than the start's; else returns the end_year - start_year + 1 seasons
\* "<start_year+i>-<start_year+i+1>". Only the first years are used.
C3_MakeSeasonList ==
    (pc # "start") =>
        IF ~IsYearHyphenYear(start_season) \/ ~IsYearHyphenYear(end_season)
        THEN err = "format" /\ pc = "crashed"
        ELSE LET sy == int(SubSeq(start_season, 1, 4))
                 ey == int(SubSeq(end_season, 1, 4))
             IN IF ey < sy
                THEN err = "range" /\ pc = "crashed"
                ELSE /\ err = "none"
                     /\ Len(seasons) = ey - sy + 1
                     /\ \A k \in 1..Len(seasons) :
                           seasons[k] = format_int(sy + k - 1) \o <<"-">> \o format_int(sy + k)

\* C4: a season-format validation error, from make_season_list or from
\* season_slug, stops the whole invocation: it is never recorded in the failure
\* list, and after it no request is issued and no log file is written.
C4_FormatErrorIsHardStop ==
    /\ \A k \in 1..Len(failures) : failures[k].error # "ValueError"
    /\ (err # "none" \/ \E k \in 1..Len(attempts) : attempts[k].raised = "ValueError")
          => /\ ~run_log.written
             /\ ~failures_csv.written
             /\ (err # "none" => events = <<>>)

(***************************************************************************)
(* get_fbref_wages.py: parse_money_to_gbp                                  *)
(* A returned float is kept as the exact fraction num/den, den a power of  *)
(* ten, in lowest terms of ten; None is the state "none".                  *)
(***************************************************************************)
UpperLetters ==
    <<"A", "B", "C", "D", "E", "F", "G", "H", "I", "J", "K", "L", "M",
      "N", "O", "P", "Q", "R", "S", "T", "U", "V", "W", "X", "Y", "Z">>

LowerLetters ==
    <<"a", "b", "c", "d", "e", "f", "g", "h", "i", "j", "k", "l", "m",
      "n", "o", "p", "q", "r", "s", "t", "u", "v", "w", "x", "y", "z">>

LowerOf(c) ==
    IF \E k \in 1..26 : UpperLetters[k] = c
    THEN LowerLetters[CHOOSE k \in 1..26 : UpperLetters[k] = c]
    ELSE c

\* str.lower()
lower(s) == [k \in 1..Len(s) |-> LowerOf(s[k])]

RECURSIVE Pow10(_)
Pow10(k) == IF k = 0 THEN 1 ELSE 10 * Pow10(k - 1)

RECURSIVE Reduce10(_, _)
Reduce10(n, d) ==
    IF d > 1 /\ n % 10 = 0 THEN Reduce10(n \div 10, d \div 10)
    ELSE [state |-> "value", num |-> n, den |-> d]

None == [state |-> "none", num |-> 0, den |-> 1]

\* First position at or after i of s that holds no digit (Len(s) + 1 if none).
RECURSIVE SpanDigits(_, _)
SpanDigits(s, i) ==
    IF i <= Len(s) /\ IsDigit(s[i]) THEN SpanDigits(s, i + 1) ELSE i

\* First position at or after i of s that holds no whitespace.
RECURSIVE SpanSpace(_, _)
SpanSpace(s, i) ==
    IF i <= Len(s) /\ s[i] \in Whitespace THEN SpanSpace(s, i + 1) ELSE i

\* The position after the match of \d+(\.\d+)? at the start of s, 1 when there is
\* none. The greedy match is the only one either pattern of parse_money_to_gbp
\* can complete: what follows a shorter match starts with a digit or a point.
DecimalEnd(s) ==
    LET a == SpanDigits(s, 1) IN
    IF a = 1 THEN 1
    ELSE IF a <= Len(s) /\ s[a] = "." /\ SpanDigits(s, a + 1) > a + 1
         THEN SpanDigits(s, a + 1)
         ELSE a

\* "$": at the end of the text, or before a newline that ends the text.
AtDollar(s, i) == i = Len(s) + 1 \/ (i = Len(s) /\ s[i] = "\n")

\* float(text) of a text matching \d+(\.\d+)?, times mult.
DecimalValue(d, mult) ==
    LET a == SpanDigits(d, 1)
        frac == IF a <= Len(d) THEN SubSeq(d, a + 1, Len(d)) ELSE <<>>
    IN Reduce10((int(SubSeq(d, 1, a - 1)) * Pow10(Len(frac)) + int(frac)) * mult,
                Pow10(Len(frac)))

\* Faulty variant of StripCurrency: the thousands separators are left in the text.
StripCurrencyKeepCommas(s) == strip(replace(s, Pound, <<>>))

\* s.replace(<pound sign>, "").replace(",", "").strip()
StripCurrency(s) == strip(replace(replace(s, Pound, <<>>), ",", <<>>))

parse_money_to_gbp(value) ==
    IF value.na THEN None
    ELSE LET s0 == strip(value.text) IN
         IF s0 = <<>> \/ lower(s0) \in {<<"n", "a", "n">>, <<"n", "o", "n", "e">>}
         THEN None
         ELSE LET s == StripCurrency(s0)
                  e == DecimalEnd(s)
                  w == SpanSpace(s, e)
              IN IF e > 1 /\ w <= Len(s) /\ s[w] \in {"m", "M"} /\ AtDollar(s, w + 1)
                 THEN DecimalValue(SubSeq(s, 1, e - 1), 1000000)
                 ELSE IF e > 1 /\ AtDollar(s, e)
                 THEN DecimalValue(SubSeq(s, 1, e - 1), 1)
                 ELSE None

\* Longest argument text enumerated character by character.
MaxMoneyLen == 4

MoneyChars == {Pound, ",", " ", "1", ".", "m", "M", "-"}

TextsUpTo(chars, n) == UNION {[1..k -> chars] : k \in 0..n}

\* Longer arguments: the documented examples and the spellings of a missing value.
MoneyExamples ==
    { <<Pound, "1", "1", "3", ".", "9", "m">>,
      <<Pound, "1", "1", "3", ",", "9", "0", "0", ",", "0", "0", "0">>,
      <<"N", "/", "A">>, <<"n", "a", "n">>, <<"N", "o", "n", "e">>,
      <<" ", Pound, "2", ".", "5", "0", " ", "M", "\n">>,
      <<"1", "2", "3", "\n">>, <<"-", "5", "m">> }

MoneyValues ==
    {[na |-> TRUE, text |-> <<>>]}
        \cup {[na |-> FALSE, text |-> s] : s \in TextsUpTo(MoneyChars, MaxMoneyLen) \cup MoneyExamples}

InitMoney ==
    /\ money_value \in MoneyValues
    /\ money_result = Pending
    /\ ScraperIdle
    /\ SeasonIdle
    /\ ColumnsIdle
    /\ StackIdle
    /\ RegIdle

ParseMoney ==
    /\ money_result = Pending
    /\ money_result' = parse_money_to_gbp(money_value)
    /\ UNCHANGED money_value
    /\ UNCHANGED notMoney

NextMoney == ParseMoney

SpecMoney == InitMoney /\ [][NextMoney]_vars

(***************************************************************************)
(* Claim about parse_money_to_gbp (checked under SpecMoney)                *)
(***************************************************************************)
\* A text of the shape digits, or digits "." digits.
IsPlainDecimal(t) ==
    \E a \in 1..Len(t) :
        /\ \A k \in 1..a : IsDigit(t[k])
        /\ \/ a = Len(t)
           \/ /\ a + 2 <= Len(t)
              /\ t[a + 1] = "."
              /\ \A k \in (a + 2)..Len(t) : IsDigit(t[k])

\* The number a plain decimal denotes, as numerator and denominator.
PlainDecimalNum(t) == int(SelectSeq(t, IsDigit))
PlainDecimalDen(t) ==
    IF \E k \in 1..Len(t) : t[k] = "."
    THEN Pow10(Len(t) - (CHOOSE k \in 1..Len(t) : t[k] = "."))
    ELSE 1

IsAmount(r, num, den) == r.state = "value" /\ r.num * den = num * r.den

NotCurrencyMark(c) == c \notin {Pound, ","}

\* C6: parse_money_to_gbp never raises; with the currency symbol, the commas and
\* the surrounding spaces removed, a decimal number followed by a trailing m or M
\* gives the number times 1,000,000, a plain decimal number gives the number, and
\* anything else (a missing value, "", "N/A", a negative number) gives None;
\* the texts (pound sign)113.9m and (pound sign)113,900,000 both give 113,900,000.
C6_ParseMoney ==
    (money_result # Pending) =>
        /\ money_result.state \in {"none", "value"}
        /\ IF money_value.na THEN money_result = None
           ELSE LET t == strip(SelectSeq(money_value.text, NotCurrencyMark))
                    n == Len(t)
                IN IF n >= 2 /\ t[n] \in {"m", "M"} /\ IsPlainDecimal(rstrip(SubSeq(t, 1, n - 1)))
                   THEN LET d == rstrip(SubSeq(t, 1, n - 1))
                        IN IsAmount(money_result, PlainDecimalNum(d) * 1000000, PlainDecimalDen(d))
                   ELSE IF IsPlainDecimal(t)
                   THEN IsAmount(money_result, PlainDecimalNum(t), PlainDecimalDen(t))
                   ELSE money_result = None
        /\ (~money_value.na /\ money_value.text \in
                { <<Pound, "1", "1", "3", ".", "9", "m">>,
                  <<Pound, "1", "1", "3", ",", "9", "0", "0", ",", "0", "0", "0">> })
              => money_result = [state |-> "value", num |-> 113900000, den |-> 1]

\* C6 witness: the call on (pound sign)113,900,000 has returned 113,900,000.
C6_Witness ==
    /\ ~money_value.na
    /\ money_value.text = <<Pound, "1", "1", "3", ",", "9", "0", "0", ",", "0", "0", "0">>
    /\ money_result = [state |-> "value", num |-> 113900000, den |-> 1]

(***************************************************************************)
(* 01_data_preparation.py: normalise_season_value                          *)
(***************************************************************************)
\* A cell of the frame Series.str.extract returns: a text, or NaN. Python's None is
\* a third value, which extract never produces.
TextCell(s) == [kind |-> "str", text |-> s]
NaN == [kind |-> "nan", text |-> <<>>]
PyNone == [kind |-> "None", text |-> <<>>]

\* f"{x}" of such a value.
format_value(x) ==
    IF x.kind = "str" THEN x.text
    ELSE IF x.kind = "nan" THEN <<"n", "a", "n">>
    ELSE <<"N", "o", "n", "e">>

\* ^(\d{2})-(\d{2})$ found in s ("$" as in AtDollar).
TwoTwoMatches(s) ==
    /\ Len(s) >= 5
    /\ AtDollar(s, 6)
    /\ IsDigit(s[1]) /\ IsDigit(s[2]) /\ s[3] = "-" /\ IsDigit(s[4]) /\ IsDigit(s[5])

\* ^\d{4}-\d{2}$ matches s.
FourTwoMatches(s) ==
    /\ Len(s) >= 7
    /\ AtDollar(s, 8)
    /\ AllDigits(SubSeq(s, 1, 4)) /\ s[5] = "-" /\ AllDigits(SubSeq(s, 6, 7))

\* pd.Series([s]).str.extract(r"^(\d{2})-(\d{2})$").iloc[0].tolist(): the two
\* groups of the match; a row of NaN, not of None, when the text does not match.
str_extract(s) ==
    IF TwoTwoMatches(s)
    THEN <<TextCell(SubSeq(s, 1, 2)), TextCell(SubSeq(s, 4, 5))>>
    ELSE <<NaN, NaN>>

normalise_season_value(label) ==
    LET s == replace(strip(label), EnDash, <<"-">>)
        m == str_extract(s)
    IN IF m[1] # PyNone /\ m[2] # PyNone
       THEN <<"2", "0">> \o format_value(m[1]) \o <<"-">> \o format_value(m[2])
       ELSE IF FourTwoMatches(s) THEN s
       ELSE s

\* Longest sheet name enumerated character by character.
MaxLabelLen == 5

LabelChars == {"1", "9", "-", EnDash, " "}

LabelExamples ==
    { <<"1", "3", "-", "1", "4">>, <<"2", "0", "1", "3", "-", "1", "4">>,
      <<"2", "0", "1", "3", EnDash, "1", "4">>, <<"9", "-", "1", "0">>,
      <<"S", "h", "e", "e", "t", "1">> }

InitSeason ==
    /\ season_label \in TextsUpTo(LabelChars, MaxLabelLen) \cup LabelExamples
    /\ season_once = NotReturned
    /\ season_twice = NotReturned
    /\ ScraperIdle
    /\ MoneyIdle
    /\ ColumnsIdle
    /\ StackIdle
    /\ RegIdle

\* df["season"] = normalise_season_value(sheet)
NormaliseSheetName ==
    /\ ~season_once.done
    /\ season_once' = Returned(normalise_season_value(season_label))
    /\ UNCHANGED <<season_label, season_twice>>
    /\ UNCHANGED notSeason

\* The function applied to a label it returned.
NormaliseAgain ==
    /\ season_once.done
    /\ ~season_twice.done
    /\ season_twice' = Returned(normalise_season_value(season_once.text))
    /\ UNCHANGED <<season_label, season_once>>
    /\ UNCHANGED notSeason

NextSeason == NormaliseSheetName \/ NormaliseAgain

SpecSeason == InitSeason /\ [][NextSeason]_vars

\* "XX-YY": exactly two 2-digit groups separated by a hyphen.
IsTwoDigitPair(t) ==
    /\ Len(t) = 5
    /\ \A k \in {1, 2, 4, 5} : IsDigit(t[k])
    /\ t[3] = "-"

\* C5: normalise_season_value replaces en-dashes by hyphens before matching;
\* a label that is then "XX-YY" gives "20XX-YY"; every other label is returned
\* unchanged; so normalising a normalised label returns it unchanged.
C5_NormaliseSeason ==
    /\ season_once.done =>
          LET t == replace(season_label, EnDash, <<"-">>) IN
          IF IsTwoDigitPair(t)
          THEN season_once.text = <<"2", "0">> \o t
          ELSE season_once.text = season_label
    /\ season_twice.done => season_twice.text = season_once.text

(***************************************************************************)
(* 01_data_preparation.py: column standardisation (the body of the sheet   *)
(* loop, on df.columns)                                                    *)
(***************************************************************************)
\* needle in hay
Contains(hay, needle) ==
    \E k \in 1..(Len(hay) - Len(needle) + 1) :
        SubSeq(hay, k, k + Len(needle) - 1) = needle

InColumns(cols, name) == \E k \in 1..Len(cols) : cols[k] = name

\* df.rename(columns={old: new}): every column labelled old is relabelled.
rename(cols, old, new) == [k \in 1..Len(cols) |-> IF cols[k] = old THEN new ELSE cols[k]]

\* df.columns = [str(c).strip() for c in df.columns]
StripColumns(cols) == [k \in 1..Len(cols) |-> strip(cols[k])]

SeasonName == <<"s", "e", "a", "s", "o", "n">>
ClubName == <<"c", "l", "u", "b">>
PromotedName == <<"p", "r", "o", "m", "o", "t", "e", "d">>
SpendName == <<"g", "r", "o", "s", "s", "_", "t", "r", "a", "n", "s", "f", "e", "r", "_", "s", "p", "e", "n", "d", "_", "g", "b", "p", "_", "m">>

\* df["season"] = ...: a new last column unless the label exists already.
AssignSeasonColumn(cols) ==
    IF InColumns(cols, SeasonName) THEN cols ELSE Append(cols, SeasonName)

IsClubLike(c) == Contains(lower(c), <<"c", "l", "u", "b">>)
IsPromLike(c) == Contains(lower(c), <<"p", "r", "o", "m", "o", "t">>)
IsSpendLike(c) ==
    /\ Contains(lower(c), <<"t", "r", "a", "n", "s", "f", "e", "r">>)
    /\ (Contains(lower(c), <<"s", "p", "e", "n", "d">>) \/ Contains(lower(c), <<"e", "x", "p", "e", "n", "d">>))

\* Lines 30-33.
StandardiseClub(cols) ==
    IF ~InColumns(cols, ClubName)
    THEN LET club_like == SelectSeq(cols, IsClubLike) IN
         IF club_like # <<>> THEN rename(cols, club_like[1], ClubName) ELSE cols
    ELSE cols

\* Lines 36-38.
StandardisePromoted(cols) ==
    LET prom_like == SelectSeq(cols, IsPromLike) IN
    IF prom_like # <<>> /\ prom_like[1] # PromotedName
    THEN rename(cols, prom_like[1], PromotedName)
    ELSE cols

\* Lines 41-46.
StandardiseSpend(cols) ==
    LET spend_like == SelectSeq(cols, IsSpendLike) IN
    IF spend_like # <<>> /\ spend_like[1] # SpendName
    THEN rename(cols, spend_like[1], SpendName)
    ELSE cols

\* Lines 24-46 on the header of one sheet.
StandardiseColumns(header) ==
    StandardiseSpend(StandardisePromoted(StandardiseClub(
        AssignSeasonColumn(StripColumns(header)))))

\* Most columns of a modelled sheet.
MaxColumns == 3

\* Header cells as read_excel delivers them: pairwise different, not yet stripped.
HeaderNames ==
    { <<"C", "l", "u", "b">>,
      <<"C", "l", "u", "b", " ">>,
      <<"c", "l", "u", "b">>,
      <<"P", "r", "o", "m", "o", "t", "e", "d", "?">>,
      <<"p", "r", "o", "m", "o", "t", "e", "d">>,
      <<"P", "r", "o", "m", "o", "t", "e", "d", " ", "c", "l", "u", "b">>,
      <<"T", "r", "a", "n", "s", "f", "e", "r", " ", "S", "p", "e", "n", "d">>,
      <<"N", "e", "t", " ", "t", "r", "a", "n", "s", "f", "e", "r", " ", "e", "x", "p", "e", "n", "d", "i", "t", "u", "r", "e">>,
      <<"P", "o", "i", "n", "t", "s", " ", "t", "o", "t", "a", "l">> }

Distinct(s) == \A i, j \in 1..Len(s) : i # j => s[i] # s[j]

Headers == {h \in UNION {[1..n -> HeaderNames] : n \in 0..MaxColumns} : Distinct(h)}

InitColumns ==
    /\ col_pc = "strip"
    /\ columns \in Headers
    /\ columns_was = columns
    /\ ScraperIdle
    /\ MoneyIdle
    /\ SeasonIdle
    /\ StackIdle
    /\ RegIdle

\* Line 24.
StripStep ==
    /\ col_pc = "strip"
    /\ col_pc' = "season"
    /\ columns_was' = columns
    /\ columns' = StripColumns(columns)
    /\ UNCHANGED notColumns

\* Line 27.
SeasonStep ==
    /\ col_pc = "season"
    /\ col_pc' = "club"
    /\ columns_was' = columns
    /\ columns' = AssignSeasonColumn(columns)
    /\ UNCHANGED notColumns

\* Lines 30-33.
ClubStep ==
    /\ col_pc = "club"
    /\ col_pc' = "promoted"
    /\ columns_was' = columns
    /\ columns' = StandardiseClub(columns)
    /\ UNCHANGED notColumns

\* Lines 36-38.
PromotedStep ==
    /\ col_pc = "promoted"
    /\ col_pc' = "spend"
    /\ columns_was' = columns
    /\ columns' = StandardisePromoted(columns)
    /\ UNCHANGED notColumns

\* Lines 41-46.
SpendStep ==
    /\ col_pc = "spend"
    /\ col_pc' = "done"
    /\ columns_was' = columns
    /\ columns' = StandardiseSpend(columns)
    /\ UNCHANGED notColumns

NextColumns == StripStep \/ SeasonStep \/ ClubStep \/ PromotedStep \/ SpendStep

SpecColumns == InitColumns /\ [][NextColumns]_vars

\* The target of the statement just executed (col_pc names the next one).
TargetJustDone ==
    CASE col_pc = "promoted" -> "club"
      [] col_pc = "spend" -> "promoted"
      [] col_pc = "done" -> "spend"
      [] OTHER -> "none"

MatchesTarget(target, c) ==
    CASE target = "club" -> IsClubLike(c)
      [] target = "promoted" -> IsPromLike(c)
      [] OTHER -> IsSpendLike(c)

CanonicalName(target) ==
    CASE target = "club" -> ClubName
      [] target = "promoted" -> PromotedName
      [] OTHER -> SpendName

\* C7: for each target at most one column is renamed: the first column, in
\* column order, whose name matches the target's rule, and only when that name is
\* not the canonical one already (for club: only when no column is named "club");
\* every other column keeps its name, and nothing is raised when none matches.
C7_ColumnReconciliation ==
    (TargetJustDone # "none") =>
        LET target == TargetJustDone
            matching == {k \in 1..Len(columns_was) : MatchesTarget(target, columns_was[k])}
            renamed == {k \in 1..Len(columns_was) : columns[k] # columns_was[k]}
            due == /\ matching # {}
                   /\ columns_was[CHOOSE k \in matching : \A m \in matching : k <= m]
                          # CanonicalName(target)
                   /\ (target = "club" => ~InColumns(columns_was, ClubName))
        IN /\ Len(columns) = Len(columns_was)
           /\ Cardinality(renamed) <= 1
           /\ renamed = IF due THEN {CHOOSE k \in matching : \A m \in matching : k <= m}
                        ELSE {}
           /\ \A k \in renamed : columns[k] = CanonicalName(target)

(***************************************************************************)
(* 01_data_preparation.py: the sheet loop, the stacking and the duplicate  *)
(* report. A frame is its column labels and its rows; a row is a sequence  *)
(* of cells in column order.                                               *)
(***************************************************************************)
FirstColumn(cols, name) == CHOOSE k \in 1..Len(cols) : cols[k] = name /\ \A m \in 1..(k - 1) : cols[m] # name

\* The cell of a row under a label; NaN when the frame has no such column.
Lookup(cols, row, name) ==
    IF InColumns(cols, name) THEN row[FirstColumn(cols, name)] ELSE NaN

\* One pass of the sheet loop (lines 21-48) on a sheet as read_excel returns it.
ProcessSheet(sh) ==
    LET cols0 == StripColumns(sh.header)
        season == TextCell(normalise_season_value(sh.name))
        cols1 == AssignSeasonColumn(cols0)
        rows1 == [r \in 1..Len(sh.rows) |->
                    [k \in 1..Len(cols1) |->
                        IF cols1[k] = SeasonName THEN season ELSE sh.rows[r][k]]]
    IN [columns |-> StandardiseColumns(sh.header), rows |-> rows1]

\* The labels of the frames in order of first appearance.
RECURSIVE UnionColumns(_, _)
UnionColumns(frames, acc) ==
    IF frames = <<>> THEN acc
    ELSE UnionColumns(Tail(frames),
                      acc \o SelectSeq(Head(frames).columns, LAMBDA c : ~InColumns(acc, c)))

RECURSIVE ConcatRows(_, _)
ConcatRows(frames, cols) ==
    IF frames = <<>> THEN <<>>
    ELSE LET f == Head(frames) IN
         [r \in 1..Len(f.rows) |-> [k \in 1..Len(cols) |-> Lookup(f.columns, f.rows[r], cols[k])]]
             \o ConcatRows(Tail(frames), cols)

RECURSIVE AppendRows(_)
AppendRows(frames) ==
    IF frames = <<>> THEN <<>> ELSE Head(frames).rows \o AppendRows(Tail(frames))

\* pd.concat(dfs, ignore_index=True). Frames with the same labels are appended as
\* they are; otherwise the rows are aligned on the union of the labels, which
\* pandas refuses (InvalidIndexError) when a frame repeats a label.
concat(frames) ==
    IF \A k \in 1..Len(frames) : frames[k].columns = frames[1].columns
    THEN [error |-> "none",
          frame |-> [columns |-> frames[1].columns, rows |-> AppendRows(frames)]]
    ELSE IF \E k \in 1..Len(frames) : ~Distinct(frames[k].columns)
    THEN [error |-> "InvalidIndexError", frame |-> NoFrame]
    ELSE LET cols == UnionColumns(frames, <<>>) IN
         [error |-> "none", frame |-> [columns |-> cols, rows |-> ConcatRows(frames, cols)]]

\* The (season, club) pair of every row of a frame.
SubsetKeys(f) ==
    [r \in 1..Len(f.rows) |->
        <<Lookup(f.columns, f.rows[r], SeasonName), Lookup(f.columns, f.rows[r], ClubName)>>]

\* Faulty variant of duplicated: keep="first", the first occurrence is not marked.
duplicated_keep_first(keys) ==
    [r \in 1..Len(keys) |-> \E q \in 1..(r - 1) : keys[q] = keys[r]]

\* DataFrame.duplicated(subset=..., keep=False): a row is marked when its key has
\* been seen before it or is seen after it.
duplicated(keys) ==
    [r \in 1..Len(keys) |->
        \/ \E q \in 1..(r - 1) : keys[q] = keys[r]
        \/ \E q \in (r + 1)..Len(keys) : keys[q] = keys[r]]

\* The characters of the model in code point order.
CharOrder ==
    <<"\t", "\n", " ", ",", "-", ".", "/", "0", "1", "2", "3", "4", "5", "6", "7",
      "8", "9", "?">> \o UpperLetters \o <<"_">> \o LowerLetters \o <<Pound, EnDash>>

Code(c) == CHOOSE k \in 1..Len(CharOrder) : CharOrder[k] = c

\* Python's order of two texts.
RECURSIVE TextLess(_, _)
TextLess(a, b) ==
    IF b = <<>> THEN FALSE
    ELSE IF a = <<>> THEN TRUE
    ELSE IF Head(a) # Head(b) THEN Code(Head(a)) < Code(Head(b))
    ELSE TextLess(Tail(a), Tail(b))

\* sort_values order of two cells: texts in text order, NaN after every text.
CellLess(x, y) ==
    IF x.kind = "nan" THEN FALSE
    ELSE IF y.kind = "nan" THEN TRUE
    ELSE TextLess(x.text, y.text)

KeyLess(k1, k2) ==
    \/ CellLess(k1[1], k2[1])
    \/ k1[1] = k2[1] /\ CellLess(k1[2], k2[2])

\* Stable insertion of index r into a list of indices sorted by key.
RECURSIVE InsertByKey(_, _, _)
InsertByKey(sorted, r, keys) ==
    IF sorted = <<>> THEN <<r>>
    ELSE IF KeyLess(keys[r], keys[Head(sorted)]) THEN <<r>> \o sorted
    ELSE <<Head(sorted)>> \o InsertByKey(Tail(sorted), r, keys)

RECURSIVE SortByKey(_, _)
SortByKey(indices, keys) ==
    IF indices = <<>> THEN <<>>
    ELSE InsertByKey(SortByKey(SubSeq(indices, 1, Len(indices) - 1), keys),
                     indices[Len(indices)], keys)

\* stacked[stacked.duplicated(subset=["season", "club"], keep=False)]
\*     .sort_values(["season", "club"]), as index labels.
DuplicateReport(f) ==
    LET keys == SubsetKeys(f)
        marked == duplicated(keys)
    IN SortByKey(SelectSeq([r \in 1..Len(keys) |-> r], LAMBDA r : marked[r]), keys)

\* Most sheets of a modelled workbook, and most rows in all of them together.
MaxSheets == 2
MaxStackRows == 3

StackSheetNames == { <<"1", "3", "-", "1", "4">>, <<"1", "3", EnDash, "1", "4">>, <<"2", "0", "1", "4", "-", "1", "5">> }

StackHeaders == { <<<<"C", "l", "u", "b">>>>, <<<<"T", "e", "a", "m">>>> }

StackCells == { TextCell(<<"A">>), TextCell(<<"B">>) }

StackRowLists == UNION {[1..n -> {<<c>> : c \in StackCells}] : n \in 0..MaxStackRows}

RECURSIVE TotalRows(_)
TotalRows(wb) == IF wb = <<>> THEN 0 ELSE Len(Head(wb).rows) + TotalRows(Tail(wb))

\* The workbook is opened: its sheet names are known, its sheets not yet read.
InitStack ==
    /\ workbook \in UNION {[1..n -> {[name |-> s, header |-> <<>>, rows |-> <<>>] :
                                        s \in StackSheetNames}] : n \in 1..MaxSheets}
    /\ Distinct(workbook)
    /\ sheet_no = 1
    /\ dfs = <<>>
    /\ stack_pc = "loop"
    /\ stacked = NoFrame
    /\ dupes = <<>>
    /\ stacked_csv = NoFile
    /\ stack_err = "none"
    /\ ScraperIdle
    /\ MoneyIdle
    /\ SeasonIdle
    /\ ColumnsIdle
    /\ RegIdle

\* One pass of "for sheet in xls.sheet_names": the sheet is read and processed.
SheetPass ==
    /\ stack_pc = "loop"
    /\ sheet_no <= Len(workbook)
    /\ \E h \in StackHeaders, rs \in StackRowLists :
          /\ Len(rs) <= MaxStackRows - TotalRows(workbook)
          /\ LET sh == [name |-> workbook[sheet_no].name, header |-> h, rows |-> rs] IN
             /\ workbook' = [workbook EXCEPT ![sheet_no] = sh]
             /\ dfs' = Append(dfs, ProcessSheet(sh))
    /\ sheet_no' = sheet_no + 1
    /\ UNCHANGED <<stack_pc, stacked, dupes, stacked_csv, stack_err>>
    /\ UNCHANGED notStack

\* Lines 50-58: the frames are stacked and the integrity checks printed;
\* stacked["club"] raises KeyError when no sheet had a club column.
Stack ==
    /\ stack_pc = "loop"
    /\ sheet_no > Len(workbook)
    /\ LET c == concat(dfs) IN
       /\ stacked' = c.frame
       /\ stack_err' = IF c.error # "none" THEN c.error
                       ELSE IF ~InColumns(c.frame.columns, ClubName) THEN "KeyError"
                       ELSE "none"
       /\ stack_pc' = IF c.error = "none" /\ InColumns(c.frame.columns, ClubName)
                      THEN "dupes" ELSE "crashed"
    /\ UNCHANGED <<workbook, sheet_no, dfs, dupes, stacked_csv>>
    /\ UNCHANGED notStack

\* Lines 61-62.
FindDuplicates ==
    /\ stack_pc = "dupes"
    /\ dupes' = DuplicateReport(stacked)
    /\ stack_pc' = "save"
    /\ UNCHANGED <<workbook, sheet_no, dfs, stacked, stacked_csv, stack_err>>
    /\ UNCHANGED notStack

\* Line 65.
SaveStacked ==
    /\ stack_pc = "save"
    /\ stacked_csv' = [written |-> TRUE, rows |-> stacked.rows]
    /\ stack_pc' = "done"
    /\ UNCHANGED <<workbook, sheet_no, dfs, stacked, dupes, stack_err>>
    /\ UNCHANGED notStack

NextStack == SheetPass \/ Stack \/ FindDuplicates \/ SaveStacked

SpecStack == InitStack /\ [][NextStack]_vars

(***************************************************************************)
(* Claim about the duplicate report (checked under SpecStack)              *)
(***************************************************************************)
\* Rows of the sheets before sheet k.
RowsBefore(k) == TotalRows(SubSeq(workbook, 1, k - 1))

\* C9: the duplicates report holds exactly the rows of the stacked table whose
\* (season, club) pair occurs in two or more rows, each of them once, and is empty
\* when all pairs are unique; pl_financials_stacked.csv holds every input row,
\* duplicates included: as many rows as the sheets have together.
C9_DuplicateReport ==
    (stack_pc = "done") =>
        LET keys == SubsetKeys(stacked)
            n == Len(stacked.rows)
            repeated == {r \in 1..n : Cardinality({q \in 1..n : keys[q] = keys[r]}) >= 2}
        IN /\ {dupes[k] : k \in 1..Len(dupes)} = repeated
           /\ Len(dupes) = Cardinality(repeated)
           /\ (\A r, q \in 1..n : r # q => keys[r] # keys[q]) => dupes = <<>>
           /\ stacked_csv.written
           /\ Len(stacked_csv.rows) = TotalRows(workbook)
           /\ \A k \in 1..Len(workbook) : \A r \in 1..Len(workbook[k].rows) :
                 LET row == stacked_csv.rows[RowsBefore(k) + r]
                     label == IF strip(workbook[k].header[1]) = ClubName
                                 \/ IsClubLike(strip(workbook[k].header[1]))
                              THEN ClubName ELSE strip(workbook[k].header[1])
                 IN Lookup(stacked.columns, row, label) = workbook[k].rows[r][1]

\* C9 witness: the script has finished with a report that holds a row of the first
\* sheet and a row of the second, while another row of the table is not in it.
C9_Witness ==
    /\ stack_pc = "done"
    /\ Len(workbook) = 2
    /\ \E i, j \in 1..Len(dupes) :
          /\ dupes[i] <= Len(workbook[1].rows)
          /\ dupes[j] > Len(workbook[1].rows)
    /\ Len(dupes) < Len(stacked.rows)

(***************************************************************************)
(* 02_analysis.py (type coercion) and 03_regression.py (rows of the fits). *)
(* A cell of a numeric column is a float (v tenths), an int, a text        *)
(* that is no number, or missing (NaN). A row keeps its id, its place in   *)
(* the file the script read. Every row has a season: 01 sets it.           *)
(***************************************************************************)
Missing == [kind |-> "nan", v |-> 0]
Unparseable == [kind |-> "text", v |-> 0]
FloatCell(tenths) == [kind |-> "float", v |-> tenths]
IntCell(n) == [kind |-> "int", v |-> n]

IsNumber(c) == c.kind \in {"float", "int"}

\* pd.to_numeric(column, errors="coerce") on one cell.
to_numeric(c) == IF IsNumber(c) THEN c ELSE Missing

\* Faulty variant of fillna0: missing values are left missing.
fillna_nothing(c) == c

\* .fillna(0) on one cell.
fillna0(c) == IF c.kind = "nan" THEN FloatCell(0) ELSE c

\* .astype(int) on one cell that is a number: truncation towards zero.
astype_int(c) ==
    IF c.kind = "int" THEN c
    ELSE IF c.v >= 0 THEN IntCell(c.v \div 10)
    ELSE IntCell(-((-c.v) \div 10))

\* Faulty variant of CoercePromoted: the missing values are not filled before the cast
\* is applied to the numbers.
CoercePromotedNoFill(c) == IF IsNumber(to_numeric(c)) THEN astype_int(to_numeric(c)) ELSE Missing

\* pd.to_numeric(df["promoted"], errors="coerce").fillna(0).astype(int)
CoercePromoted(c) == astype_int(fillna0(to_numeric(c)))

\* 02_analysis.py lines 47-53.
Analysis02(rows) ==
    [r \in 1..Len(rows) |->
        [id |-> rows[r].id,
         wage |-> to_numeric(rows[r].wage),
         position |-> to_numeric(rows[r].position),
         points |-> to_numeric(rows[r].points),
         spend |-> to_numeric(rows[r].spend),
         promoted |-> CoercePromoted(rows[r].promoted)]]

\* 03_regression.py lines 8-15.
Coerce03(rows) ==
    [r \in 1..Len(rows) |->
        [id |-> rows[r].id,
         wage |-> to_numeric(rows[r].wage),
         position |-> to_numeric(rows[r].position),
         points |-> to_numeric(rows[r].points),
         spend |-> fillna0(to_numeric(rows[r].spend)),
         promoted |-> CoercePromoted(rows[r].promoted)]]

HasPointsAndWage(row) == row.points.kind # "nan" /\ row.wage.kind # "nan"

\* df.dropna(subset=["points_total", "total_wage_bill_gbp_m"])
dropna(rows) == SelectSeq(rows, HasPointsAndWage)

\* The columns a model's formula names (season, which the last two also name, is
\* never missing).
FormulaColumns(m) ==
    CASE m = "M1" -> {"points", "wage"}
      [] m = "M2" -> {"points", "wage", "spend"}
      [] m = "M3" -> {"points", "wage", "spend", "promoted"}
      [] OTHER -> {"position", "wage", "spend", "promoted"}

CellOf(row, col) ==
    CASE col = "points" -> row.points
      [] col = "wage" -> row.wage
      [] col = "spend" -> row.spend
      [] col = "position" -> row.position
      [] OTHER -> row.promoted

\* smf.ols(formula, data=df).fit(): the formula interface leaves out every row with
\* a missing value in a column of the formula (missing="drop").
FitRows(rows, m) ==
    {rows[r].id : r \in {q \in 1..Len(rows) :
                            \A col \in FormulaColumns(m) : CellOf(rows[q], col).kind # "nan"}}

\* Most rows of a modelled table.
MaxTableRows == 1

TableRows(n) ==
    [1..n -> [wage : {Missing, Unparseable, FloatCell(1139)},
              position : {Missing, IntCell(3)},
              points : {Missing, IntCell(40)},
              spend : {Missing, Unparseable, FloatCell(255)},
              promoted : {Missing, Unparseable, IntCell(1), FloatCell(15)}]]

WithIds(rows) ==
    [r \in 1..Len(rows) |->
        [id |-> r, wage |-> rows[r].wage, position |-> rows[r].position,
         points |-> rows[r].points, spend |-> rows[r].spend,
         promoted |-> rows[r].promoted]]

Tables == {WithIds(rows) : rows \in UNION {TableRows(n) : n \in 0..MaxTableRows}}

\* Either 02 is about to read the stacked file, or 03 is about to read a file
\* pl_financials_analysis_ready.csv that is already there.
InitReg ==
    /\ \/ /\ reg_pc = "analysis"
          /\ stacked_rows \in Tables
          /\ ready_csv = NoFile
       \/ /\ reg_pc = "regression"
          /\ stacked_rows = <<>>
          /\ ready_csv \in {[written |-> TRUE, rows |-> rows] : rows \in Tables}
    /\ table = <<>>
    /\ used = NotFitted
    /\ ScraperIdle
    /\ MoneyIdle
    /\ SeasonIdle
    /\ ColumnsIdle
    /\ StackIdle

\* 02_analysis.py: the columns are coerced and the table is saved.
Analysis ==
    /\ reg_pc = "analysis"
    /\ table' = Analysis02(stacked_rows)
    /\ ready_csv' = [written |-> TRUE, rows |-> WithIds(Analysis02(stacked_rows))]
    /\ reg_pc' = "regression"
    /\ UNCHANGED <<stacked_rows, used>>
    /\ UNCHANGED notReg

\* 03_regression.py lines 5-15: the file is read and its columns coerced.
Coerce ==
    /\ reg_pc = "regression"
    /\ ready_csv.written
    /\ table' = Coerce03(ready_csv.rows)
    /\ reg_pc' = "dropna"
    /\ UNCHANGED <<stacked_rows, ready_csv, used>>
    /\ UNCHANGED notReg

\* 03_regression.py line 18.
DropMissing ==
    /\ reg_pc = "dropna"
    /\ table' = dropna(table)
    /\ reg_pc' = "fit"
    /\ UNCHANGED <<stacked_rows, ready_csv, used>>
    /\ UNCHANGED notReg

\* 03_regression.py lines 26-64: the four models are fitted on df.
Fit ==
    /\ reg_pc = "fit"
    /\ used' = [m \in Models |-> FitRows(table, m)]
    /\ reg_pc' = "done"
    /\ UNCHANGED <<stacked_rows, ready_csv, table>>
    /\ UNCHANGED notReg

NextReg == Analysis \/ Coerce \/ DropMissing \/ Fit

SpecReg == InitReg /\ [][NextReg]_vars

(***************************************************************************)
(* Claims about the coercion and the regression rows (checked under        *)
(* SpecReg)                                                                *)
(***************************************************************************)
DependentCell(row, m) == IF m = "M4" THEN row.position ELSE row.points

\* C8: no model M1..M4 is fitted on a row whose dependent variable (points_total,
\* league_position for M4) or wage bill is missing or unparseable in the file read;
\* a row whose transfer spend is missing is not removed for that: it stays in df
\* with transfer spend 0 and is used by every model whose other columns it has.
C8_RegressionRows ==
    (reg_pc = "done") =>
        \A r \in 1..Len(ready_csv.rows) : \A m \in Models :
            LET src == ready_csv.rows[r]
                kept == {q \in 1..Len(table) : table[q].id = src.id}
            IN /\ (~IsNumber(DependentCell(src, m)) \/ ~IsNumber(src.wage))
                     => src.id \notin used[m]
               /\ (~IsNumber(src.spend) /\ IsNumber(src.points) /\ IsNumber(src.wage))
                     => /\ Cardinality(kept) = 1
                        /\ \A q \in kept : table[q].spend = FloatCell(0)
                        /\ IsNumber(DependentCell(src, m)) => src.id \in used[m]

\* C8 witness: a row without league position and without transfer spend was used
\* for M2, with transfer spend 0, and not for M4.
C8_Witness ==
    /\ reg_pc = "done"
    /\ \E r \in 1..Len(ready_csv.rows) :
          /\ ready_csv.rows[r].position = Missing
          /\ ~IsNumber(ready_csv.rows[r].spend)
          /\ ready_csv.rows[r].id \in used["M2"]
          /\ ready_csv.rows[r].id \notin used["M4"]
          /\ \E q \in 1..Len(table) : table[q].id = ready_csv.rows[r].id
                                        /\ table[q].spend = FloatCell(0)

\* What coercion makes of a column other than promoted.
KeepsNumberElseMissing(before, after) ==
    IF IsNumber(before) THEN after = before ELSE after = Missing

====
